---- MODULE Spec2Model ----
(***************************************************************************)
(* Alteryx Python SDK sample tools, modelled as state machines driven by   *)
(* the host engine's callback protocol (pi_init, pi_add_incoming_          *)
(* connection, pi_push_all_records, ii_init, ii_push_record,               *)
(* ii_update_progress, ii_close, pi_close).  Every tool is an              *)
(* independent plugin; each has its own group of variables, its own        *)
(* actions and its own specification.  While one tool is being driven the  *)
(* variables of the other tools keep their constructor values.             *)
(***************************************************************************)
EXTENDS Integers, Sequences, FiniteSets, TLC

VARIABLES
    \* ---- Python - Output (AyxPlugin + IncomingInterface)
    o_pc,              \* position of the engine in the callback protocol
    o_str_file_path,   \* AyxPlugin.str_file_path
    o_is_valid,        \* AyxPlugin.is_valid
    o_record_info_in,  \* IncomingInterface.record_info_in (field names) or None
    o_field_lists,     \* IncomingInterface.field_lists: one list per field
    o_counter,         \* IncomingInterface.counter
    o_file,            \* rows of the csv file at str_file_path (append mode)
    o_file_exists,     \* whether open(path, 'a') has created the file
    o_msgs,            \* messages handed to alteryx_engine.output_message
    o_ret,             \* return value of the last ii_push_record
    o_received,        \* history: records handed to ii_push_record
    \* ---- Python - Single Input Output (top N)
    t_pc,
    t_n_record_select, \* AyxPlugin.n_record_select (text of <NRecords>)
    t_record_cnt,      \* IncomingInterface.record_cnt
    t_anchor,          \* records pushed to output_anchor, in order
    t_ret,             \* return value of the last ii_push_record
    t_pushed_now,      \* whether the last ii_push_record pushed its record
    t_received,        \* history: records handed to ii_push_record
    \* ---- Python - Single Anchor Multiple Inputs (union)
    u_pc,
    u_message_type,       \* AyxPlugin.message_type
    u_all_inputs,         \* AyxPlugin.all_inputs: the IncomingInterface objects, by wire
    u_inputs,             \* the IncomingInterface objects' fields, by wire
    u_unique_field_names, \* AyxPlugin.unique_field_names
    u_record_info_out,    \* AyxPlugin.record_info_out (field names) or None
    u_anchor,             \* calls made on output_anchor, in order
    u_msgs,               \* messages handed to alteryx_engine.output_message
    \* ---- Python - Multiple Inputs (join)
    j_pc,
    j_prefix,     \* AyxPlugin.left_prefix / right_prefix, by side
    j_input,      \* AyxPlugin.left_input / right_input and their fields, by side
    j_anchor,     \* calls made on output_anchor, in order
    j_msgs,       \* messages handed to alteryx_engine.output_message
    j_crashed,    \* process_output raised on a None record
    j_closed,     \* history: the sides in the order of their ii_close
    \* ---- PyMultipleOutputsToolExample (set-based unique / duplicate)
    d_pc,
    d_initialized,          \* AyxPlugin.initialized
    d_key_set_current,      \* NonInterface.key_set_current
    d_key_set_previous_len, \* NonInterface.key_set_previous_len
    d_target,               \* NonInterface.target_output_anchor
    d_unique,               \* records pushed to the Unique anchor, in order
    d_dupe,                 \* records pushed to the Duplicate anchor, in order
    d_ret,                  \* return value of the last ii_push_record
    d_received,             \* history: records handed to ii_push_record after ii_init
    \* ---- Python - Multiple Outputs (sorted unique / duplicate)
    m_pc,
    m_field_selection,  \* AyxPlugin.field_selection
    m_previous_value,   \* IncomingInterface.previous_value
    m_records_unique,   \* IncomingInterface.records_unique
    m_records_dupe,     \* IncomingInterface.records_dupe
    m_unique,           \* records pushed to the Unique anchor, in order
    m_dupe,             \* records pushed to the Duplicate anchor, in order
    m_msgs,             \* messages handed to alteryx_engine.output_message
    m_ret,              \* return value of the last ii_init / ii_push_record
    m_received,         \* history: records handed to ii_push_record
    \* ---- Python - Input (csv reader)
    i_pc,
    i_file_path,       \* AyxPlugin.file_path and the file system entry behind it
    i_is_initialized,  \* AyxPlugin.is_initialized
    i_anchor,          \* calls made on output_anchor, in order
    i_msgs,            \* messages handed to alteryx_engine.output_message
    i_ret,             \* outcome of pi_push_all_records
    i_update_only,     \* history: the engine's UpdateOnly init var read by the call
    i_n_record_limit,  \* history: the argument of pi_push_all_records
    \* ---- Python - Optional Input (record ID)
    g_pc,
    g_is_initialized,      \* AyxPlugin.is_initialized
    g_single_input,        \* AyxPlugin.single_input is set (an incoming connection)
    g_column_name,         \* AyxPlugin.column_name
    g_starting_value,      \* AyxPlugin.starting_value
    g_total_record_count,  \* AyxPlugin.total_record_count
    g_record_increment,    \* AyxPlugin.record_increment
    g_anchor,              \* calls made on output_anchor, in order
    g_msgs,                \* messages handed to alteryx_engine.output_message
    g_ret,                 \* outcome of each pi_push_all_records / ii_init / ii_push_record
    g_start_value,         \* history: the configured StartValue
    g_received,            \* history: records handed to ii_push_record
    g_n_record_limit,      \* history: the argument of pi_push_all_records
    \* ---- PySortedInputToolExample (min / max)
    s_pc,
    s_selected_aggregation,  \* AyxPlugin.selected_aggregation
    s_xml_sort_info,         \* NonInterface.xml_sort_info, element by element
    s_pre_sort,              \* sort info handed to alteryx_engine.pre_sort
    s_initialized,           \* AyxPlugin.initialized
    s_anchor,                \* calls made on output_anchor, in order
    s_msgs,                  \* messages handed to alteryx_engine.output_message
    s_ret,                   \* outcome of each ii_push_record
    s_received,              \* history: records handed to ii_push_record
    \* ---- PyMultipleInputsToolExample (binary compatibility)
    b_pc,              \* position of the engine on each incoming connection
    b_is_left,         \* AyxPlugin.is_left
    b_hash_left,       \* NonInterface.hash_left
    b_hash_right,      \* NonInterface.hash_right
    b_fields_left,     \* NonInterface.fields_left
    b_fields_right,    \* NonInterface.fields_right
    b_record_creator,  \* AyxPlugin.record_creator is set
    b_anchor,          \* calls made on output_anchor, in order
    b_progress,        \* values handed to alteryx_engine.output_tool_progress
    b_calls            \* history: the ii_ calls and what each did

outVars  == <<o_pc, o_str_file_path, o_is_valid, o_record_info_in, o_field_lists,
              o_counter, o_file, o_file_exists, o_msgs, o_ret, o_received>>
topNVars == <<t_pc, t_n_record_select, t_record_cnt, t_anchor, t_ret,
              t_pushed_now, t_received>>

unionVars == <<u_pc, u_message_type, u_all_inputs, u_inputs, u_unique_field_names,
               u_record_info_out, u_anchor, u_msgs>>

joinVars == <<j_pc, j_prefix, j_input, j_anchor, j_msgs, j_crashed, j_closed>>

dedupVars == <<d_pc, d_initialized, d_key_set_current, d_key_set_previous_len,
               d_target, d_unique, d_dupe, d_ret, d_received>>
multiOutVars == <<m_pc, m_field_selection, m_previous_value, m_records_unique,
                  m_records_dupe, m_unique, m_dupe, m_msgs, m_ret, m_received>>

inputVars == <<i_pc, i_file_path, i_is_initialized, i_anchor, i_msgs, i_ret,
               i_update_only, i_n_record_limit>>
optInVars == <<g_pc, g_is_initialized, g_single_input, g_column_name,
               g_starting_value, g_total_record_count, g_record_increment,
               g_anchor, g_msgs, g_ret, g_start_value, g_received, g_n_record_limit>>
sortedVars == <<s_pc, s_selected_aggregation, s_xml_sort_info, s_pre_sort,
                s_initialized, s_anchor, s_msgs, s_ret, s_received>>
compatVars == <<b_pc, b_is_left, b_hash_left, b_hash_right, b_fields_left,
                b_fields_right, b_record_creator, b_anchor, b_progress, b_calls>>

vars == <<outVars, topNVars, unionVars, joinVars, dedupVars, multiOutVars,
          inputVars, optInVars, sortedVars, compatVars>>

\* What each tool's actions leave alone: the other tools
notOut      == <<topNVars, unionVars, joinVars, dedupVars, multiOutVars,
                  inputVars, optInVars, sortedVars, compatVars>>
notTopN     == <<outVars, unionVars, joinVars, dedupVars, multiOutVars,
                  inputVars, optInVars, sortedVars, compatVars>>
notUnion    == <<outVars, topNVars, joinVars, dedupVars, multiOutVars,
                  inputVars, optInVars, sortedVars, compatVars>>
notJoin     == <<outVars, topNVars, unionVars, dedupVars, multiOutVars,
                  inputVars, optInVars, sortedVars, compatVars>>
notDedup    == <<outVars, topNVars, unionVars, joinVars, multiOutVars,
                  inputVars, optInVars, sortedVars, compatVars>>
notMultiOut == <<outVars, topNVars, unionVars, joinVars, dedupVars,
                  inputVars, optInVars, sortedVars, compatVars>>

notInput    == <<outVars, topNVars, unionVars, joinVars, dedupVars, multiOutVars,
                  optInVars, sortedVars, compatVars>>
notOptIn    == <<outVars, topNVars, unionVars, joinVars, dedupVars, multiOutVars,
                  inputVars, sortedVars, compatVars>>
notSorted   == <<outVars, topNVars, unionVars, joinVars, dedupVars, multiOutVars,
                  inputVars, optInVars, compatVars>>
notCompat   == <<outVars, topNVars, unionVars, joinVars, dedupVars, multiOutVars,
                  inputVars, optInVars, sortedVars>>

\* Python's None
None == "<None>"

(***************************************************************************)
(* Bounds of the model                                                     *)
(***************************************************************************)
\* The chunk mark of the csv writers.  The source writes 1000000; the model
\* scales it down so that runs cross the mark several times.
ChunkSize == 2
\* Most ii_push_record calls of one run of the Output tool
MaxOutRecords == 5
\* Most ii_push_record calls of one run of the top-N tool
MaxTopNRecords == 4
\* Largest configured NRecords
MaxNRecords == 3
\* Most records one input of the union tool receives
MaxUnionRecords == 2
\* Most records one input of the join tool receives
MaxJoinRecords == 3
\* Most ii_push_record calls of one run of PyMultipleOutputsToolExample
MaxDedupRecords == 4
\* Most ii_push_record calls of one run of the Multiple Outputs tool
MaxMultiOutRecords == 5
\* Most data rows of a csv file read by the Input tool
MaxCsvRows == 3
\* Largest n_record_limit handed to pi_push_all_records
MaxRecordLimit == 2
\* Largest configured EndValue of the Optional Input tool
MaxEndValue == 3
\* Most ii_push_record calls of one run of the Optional Input tool
MaxOptInRecords == 3
\* Most ii_push_record calls of one run of PySortedInputToolExample
MaxSortedRecords == 3
\* Most ii_ calls of one run of PyMultipleInputsToolExample
MaxCompatCalls == 6

(***************************************************************************)
(* Generic helpers                                                         *)
(***************************************************************************)
Min(a, b) == IF a <= b THEN a ELSE b
Max(a, b) == IF a >= b THEN a ELSE b

Range(s) == {s[i] : i \in DOMAIN s}

(***************************************************************************)
(* Python - Output                                                         *)
(***************************************************************************)
\* A configured path, by the properties msg_str looks at.
OutPaths ==
    { [name |-> "new.csv",   exists |-> FALSE, len |-> 7,   forbidden |-> FALSE, csv |-> TRUE],
      [name |-> "old.csv",   exists |-> TRUE,  len |-> 7,   forbidden |-> FALSE, csv |-> TRUE],
      [name |-> "long.csv",  exists |-> FALSE, len |-> 260, forbidden |-> FALSE, csv |-> TRUE],
      [name |-> "a?.csv",    exists |-> FALSE, len |-> 6,   forbidden |-> TRUE,  csv |-> TRUE],
      [name |-> "",          exists |-> FALSE, len |-> 0,   forbidden |-> FALSE, csv |-> FALSE],
      [name |-> "new.txt",   exists |-> FALSE, len |-> 7,   forbidden |-> FALSE, csv |-> FALSE] }

EmptyPath == [name |-> "", exists |-> FALSE, len |-> 0, forbidden |-> FALSE, csv |-> FALSE]

\* Incoming layouts (field names) and field values; a value may be null.
OutLayouts == { <<"f1">>, <<"f1", "f2">> }
OutValues  == { "a", None }
OutRecords(layout) == [DOMAIN layout -> OutValues]

\* Field.get_as_string followed by the "'' if None" of ii_push_record
OutCell(v) == IF v = None THEN "" ELSE v

\* The csv row of a record
OutRow(rec) == [f \in DOMAIN rec |-> OutCell(rec[f])]

\* Mutant: msg_str without the file-extension test
msg_str_any_extension(file_path) ==
    IF file_path.exists THEN "already exists"
    ELSE IF file_path.len > 259 THEN "Maximum path length is 259"
    ELSE IF file_path.forbidden THEN "These characters are not allowed in the filename"
    ELSE IF file_path.len = 0 THEN "Enter a filename"
    ELSE ""

\* AyxPlugin.msg_str
msg_str(file_path) ==
    IF file_path.exists THEN "already exists"
    ELSE IF file_path.len > 259 THEN "Maximum path length is 259"
    ELSE IF file_path.forbidden THEN "These characters are not allowed in the filename"
    ELSE IF file_path.len = 0 THEN "Enter a filename"
    ELSE IF ~file_path.csv THEN "File extension must be .csv"
    ELSE ""

\* zip(*field_lists): the rows of the columns, as long as the shortest column
ZipRows(field_lists) ==
    LET n == IF field_lists = <<>> THEN 0
             ELSE CHOOSE m \in 0..Len(field_lists[1]) :
                    /\ \A f \in DOMAIN field_lists : m <= Len(field_lists[f])
                    /\ \E f \in DOMAIN field_lists : m = Len(field_lists[f])
    IN [i \in 1..n |-> [f \in DOMAIN field_lists |-> field_lists[f][i]]]

\* "del sublist[:]" for every sublist
ClearedLists(field_lists) == [f \in DOMAIN field_lists |-> <<>>]

\* The state of the Output tool after its constructors
OutConstructed ==
    /\ o_pc = "new"
    /\ o_str_file_path = EmptyPath
    /\ o_is_valid = FALSE
    /\ o_record_info_in = None
    /\ o_field_lists = <<>>
    /\ o_counter = 0
    /\ o_file = <<>>
    /\ o_file_exists = FALSE
    /\ o_msgs = <<>>
    /\ o_ret = None
    /\ o_received = <<>>

Out_pi_init ==
    /\ o_pc = "new"
    /\ \E p \in OutPaths :
          /\ o_str_file_path' = p
          /\ IF msg_str(p) # ""
             THEN /\ o_msgs' = Append(o_msgs, "error")
                  /\ o_is_valid' = o_is_valid
             ELSE /\ o_msgs' = o_msgs
                  /\ o_is_valid' = TRUE
    /\ o_pc' = "configured"
    /\ UNCHANGED <<o_record_info_in, o_field_lists, o_counter, o_file,
                   o_file_exists, o_ret, o_received>>
    /\ UNCHANGED notOut

Out_ii_init ==
    /\ o_pc = "configured"
    /\ \E layout \in OutLayouts :
          /\ o_record_info_in' = layout
          /\ o_field_lists' = o_field_lists \o [f \in DOMAIN layout |-> <<layout[f]>>]
    /\ o_pc' = "streaming"
    /\ UNCHANGED <<o_str_file_path, o_is_valid, o_counter, o_file, o_file_exists,
                   o_msgs, o_ret, o_received>>
    /\ UNCHANGED notOut

\* The chunk-mark test of ii_push_record
OutAtChunkMark(counter) == counter = ChunkSize

Out_ii_push_record ==
    /\ o_pc = "streaming"
    /\ Len(o_received) < MaxOutRecords
    /\ \E in_record \in OutRecords(o_record_info_in) :
          LET counter1 == o_counter + 1
              lists1   == [f \in DOMAIN o_field_lists |->
                              Append(o_field_lists[f], OutCell(in_record[f]))]
          IN  /\ o_received' = Append(o_received, in_record)
              /\ IF ~o_is_valid
                 THEN /\ o_counter' = counter1
                      /\ o_ret' = FALSE
                      /\ UNCHANGED <<o_field_lists, o_file, o_file_exists>>
                 ELSE /\ o_ret' = TRUE
                      /\ IF OutAtChunkMark(counter1)
                         THEN /\ o_file' = o_file \o ZipRows(lists1)
                              /\ o_file_exists' = TRUE
                              /\ o_field_lists' = ClearedLists(lists1)
                              /\ o_counter' = 0
                         ELSE /\ o_field_lists' = lists1
                              /\ o_counter' = counter1
                              /\ UNCHANGED <<o_file, o_file_exists>>
    /\ UNCHANGED <<o_pc, o_str_file_path, o_is_valid, o_record_info_in, o_msgs>>
    /\ UNCHANGED notOut

\* The residual-data test of ii_close
OutHasResidual(field_lists) == Len(field_lists[1]) > 1

Out_ii_close ==
    /\ o_pc = "streaming"
    /\ IF OutHasResidual(o_field_lists) /\ o_is_valid
       THEN /\ o_file' = o_file \o ZipRows(o_field_lists)
            /\ o_file_exists' = TRUE
            /\ o_field_lists' = ClearedLists(o_field_lists)
       ELSE UNCHANGED <<o_file, o_file_exists, o_field_lists>>
    /\ IF o_str_file_path.len > 0 /\ o_is_valid
       THEN o_msgs' = Append(o_msgs, "file_output")
       ELSE o_msgs' = o_msgs
    /\ o_pc' = "closed"
    /\ UNCHANGED <<o_str_file_path, o_is_valid, o_record_info_in, o_counter,
                   o_ret, o_received>>
    /\ UNCHANGED notOut

(***************************************************************************)
(* Python - Single Input Output (top N)                                    *)
(***************************************************************************)
TopNRecords == { "r1", "r2" }

\* int(text) for the texts the configuration can hold
NRecordTexts == { [text |-> n] : n \in 0..MaxNRecords }
int(t) == t.text

TopNConstructed ==
    /\ t_pc = "new"
    /\ t_n_record_select = None
    /\ t_record_cnt = 0
    /\ t_anchor = <<>>
    /\ t_ret = None
    /\ t_pushed_now = FALSE
    /\ t_received = <<>>

TopN_pi_init ==
    /\ t_pc = "new"
    /\ \E n \in NRecordTexts : t_n_record_select' = n
    /\ t_pc' = "streaming"
    /\ UNCHANGED <<t_record_cnt, t_anchor, t_ret, t_pushed_now, t_received>>
    /\ UNCHANGED notTopN

\* Mutant: the limit test off by one
TopNWithinLimit_strict(record_cnt, n_record_select) == record_cnt < int(n_record_select)

\* The limit test of ii_push_record
TopNWithinLimit(record_cnt, n_record_select) == record_cnt <= int(n_record_select)

TopN_ii_push_record ==
    /\ t_pc = "streaming"
    /\ Len(t_received) < MaxTopNRecords
    /\ \E in_record \in TopNRecords :
          /\ t_received' = Append(t_received, in_record)
          /\ t_record_cnt' = t_record_cnt + 1
          /\ IF TopNWithinLimit(t_record_cnt + 1, t_n_record_select)
             THEN /\ t_anchor' = Append(t_anchor, in_record)
                  /\ t_pushed_now' = TRUE
                  /\ t_ret' = TRUE
             ELSE /\ t_anchor' = t_anchor
                  /\ t_pushed_now' = FALSE
                  /\ t_ret' = FALSE
    /\ UNCHANGED <<t_pc, t_n_record_select>>
    /\ UNCHANGED notTopN

TopN_ii_close ==
    /\ t_pc = "streaming"
    /\ t_pc' = "closed"
    /\ UNCHANGED <<t_n_record_select, t_record_cnt, t_anchor, t_ret,
                   t_pushed_now, t_received>>
    /\ UNCHANGED notTopN

(***************************************************************************)
(* Python - Single Anchor Multiple Inputs (union)                          *)
(***************************************************************************)
\* The wires the workflow may connect, in any order and any number of
\* them: wire n is named "#n".
UnionWires == {1, 2, 3}

\* The incoming layouts (field names; distinct within one layout)
UnionLayouts == { <<"a">>, <<"b", "a">>, <<"c", "b">> }

UnionMessageTypes == { "error", "warning" }

\* The i-th record an upstream tool sends on wire w with layout `layout`:
\* every value tells its record and its field.
UnionInRecord(w, i, layout) ==
    [f \in DOMAIN layout |-> [rec |-> <<w, i>>, fld |-> layout[f]]]

\* A record_info_in or record_copier that is still None
NoLayout == <<>>
NoCopier == <<>>

\* A wire without an IncomingInterface object.  (received is history: the
\* number of ii_push_record calls made on the wire.)
UnionNoInput ==
    [wired |-> FALSE, input_complete |-> FALSE, record_info_in |-> NoLayout,
     record_copier |-> NoCopier, record_list |-> <<>>, received |-> 0]

\* A null field value
UnionNull == [rec |-> <<0, 0>>, fld |-> ""]

\* IncomingInterface.__init__
UnionNewInput ==
    [wired |-> TRUE, input_complete |-> FALSE, record_info_in |-> NoLayout,
     record_copier |-> NoCopier, record_list |-> <<>>, received |-> 0]

\* RecordCopier.copy: the destination with every mapped field overwritten.
\* copier[input_idx] is the output index given to RecordCopier.add.
CopyRecord(copier, dest, src) ==
    [o \in DOMAIN dest |->
        IF \E j \in DOMAIN copier : copier[j] = o
        THEN src[CHOOSE j \in DOMAIN copier : copier[j] = o]
        ELSE dest[o]]

\* list.index
IndexOf(list, x) == CHOOSE k \in DOMAIN list : list[k] = x /\ \A m \in 1..(k-1) : list[m] # x

\* [x for x in list if x not in other]
RECURSIVE NotIn(_, _)
NotIn(list, other) ==
    IF list = <<>> THEN <<>>
    ELSE (IF Head(list) \in Range(other) THEN <<>> ELSE <<Head(list)>>)
            \o NotIn(Tail(list), other)

\* int(re.findall('[\d+]', name)[-1]) for the wire name "#n": its last digit
SortKey(w) == w % 10

\* list.sort(key=...): stable, ascending by key
RECURSIVE InsertSorted(_, _)
InsertSorted(sorted, w) ==
    IF sorted = <<>> THEN <<w>>
    ELSE IF SortKey(Head(sorted)) <= SortKey(w)
         THEN <<Head(sorted)>> \o InsertSorted(Tail(sorted), w)
         ELSE <<w>> \o sorted

RECURSIVE SortedInputs(_)
SortedInputs(all_inputs) ==
    IF all_inputs = <<>> THEN <<>>
    ELSE InsertSorted(SortedInputs(SubSeq(all_inputs, 1, Len(all_inputs) - 1)),
                      all_inputs[Len(all_inputs)])

\* Mutant: every field mapped to its own index, as ii_init does
setup_record_copier_same_index(layout, unique_field_names) ==
    [input_idx \in DOMAIN layout |-> input_idx]

\* AyxPlugin.setup_record_copier: input index -> output index
setup_record_copier(layout, unique_field_names) ==
    [input_idx \in DOMAIN layout |-> IndexOf(unique_field_names, layout[input_idx])]

\* The layout loop of record_processor over all_inputs[i..], with
\* acc = [unique, info_out, new_fields, msgs, copiers]
RECURSIVE SchemaLoop(_, _, _, _, _)
SchemaLoop(order, i, inputs, message_type, acc) ==
    IF i > Len(order) THEN acc
    ELSE
      LET layout == inputs[order[i]].record_info_in
          first  == Len(acc.unique) = 0
          new_fields == IF first THEN acc.new_fields ELSE NotIn(layout, acc.unique)
          info_out   == IF first THEN layout ELSE acc.info_out \o new_fields
          unique     == IF first THEN layout ELSE acc.unique \o new_fields
          msgs       == IF ~first /\ message_type = "error"
                        THEN acc.msgs \o [k \in DOMAIN new_fields |->
                                             <<"error", "not present", new_fields[k]>>]
                        ELSE acc.msgs
      IN SchemaLoop(order, i + 1, inputs, message_type,
             [unique |-> unique, info_out |-> info_out, new_fields |-> new_fields,
              msgs |-> msgs,
              copiers |-> [acc.copiers EXCEPT ![order[i]] =
                              setup_record_copier(layout, unique)]])

\* The test that decides whether record_processor pushes the records
UnionAbort(new_fields, message_type) == new_fields # <<>> /\ message_type = "error"

\* field.set_null for every field of record_info_out
NullRecord(info_out) == [o \in DOMAIN info_out |-> UnionNull]

\* The push loop of record_processor: the records of one input
UnionInputPushes(input, copier, info_out) ==
    [k \in DOMAIN input.record_list |->
        <<"push_record", CopyRecord(copier, NullRecord(info_out), input.record_list[k])>>]

RECURSIVE UnionPushes(_, _, _, _, _)
UnionPushes(order, i, inputs, copiers, info_out) ==
    IF i > Len(order) THEN <<>>
    ELSE UnionInputPushes(inputs[order[i]], copiers[order[i]], info_out)
            \o UnionPushes(order, i + 1, inputs, copiers, info_out)

UnionConstructed ==
    /\ u_pc = "new"
    /\ u_message_type = None
    /\ u_all_inputs = <<>>
    /\ u_inputs = [w \in UnionWires |-> UnionNoInput]
    /\ u_unique_field_names = <<>>
    /\ u_record_info_out = NoLayout
    /\ u_anchor = <<>>
    /\ u_msgs = <<>>

Union_pi_init ==
    /\ u_pc = "new"
    /\ \E m \in UnionMessageTypes : u_message_type' = m
    /\ u_pc' = "wired"
    /\ UNCHANGED <<u_all_inputs, u_inputs, u_unique_field_names, u_record_info_out,
                   u_anchor, u_msgs>>
    /\ UNCHANGED notUnion

\* The engine wires every connection before it sends any metadata.
Union_pi_add_incoming_connection ==
    /\ u_pc = "wired"
    /\ \A w \in UnionWires : u_inputs[w].record_info_in = NoLayout
    /\ \E w \in UnionWires :
          /\ ~u_inputs[w].wired
          /\ u_all_inputs' = Append(u_all_inputs, w)
          /\ u_inputs' = [u_inputs EXCEPT ![w] = UnionNewInput]
    /\ UNCHANGED <<u_pc, u_message_type, u_unique_field_names, u_record_info_out,
                   u_anchor, u_msgs>>
    /\ UNCHANGED notUnion

Union_ii_init ==
    /\ u_pc = "wired"
    /\ \E w \in UnionWires, layout \in UnionLayouts :
          /\ u_inputs[w].wired
          /\ u_inputs[w].record_info_in = NoLayout
          /\ u_inputs' = [u_inputs EXCEPT ![w] =
                 [@ EXCEPT !.record_copier = [index \in DOMAIN layout |-> index],
                           !.record_info_in = layout]]
    /\ UNCHANGED <<u_pc, u_message_type, u_all_inputs, u_unique_field_names,
                   u_record_info_out, u_anchor, u_msgs>>
    /\ UNCHANGED notUnion

Union_ii_push_record ==
    /\ u_pc = "wired"
    /\ \E w \in UnionWires :
          /\ u_inputs[w].wired
          /\ u_inputs[w].record_info_in # NoLayout
          /\ ~u_inputs[w].input_complete
          /\ u_inputs[w].received < MaxUnionRecords
          /\ LET layout    == u_inputs[w].record_info_in
                 in_record == UnionInRecord(w, u_inputs[w].received + 1, layout)
                 creator   == NullRecord(layout)
             IN u_inputs' = [u_inputs EXCEPT
                    ![w].record_list =
                        Append(@, CopyRecord(u_inputs[w].record_copier, creator, in_record)),
                    ![w].received = @ + 1]
    /\ UNCHANGED <<u_pc, u_message_type, u_all_inputs, u_unique_field_names,
                   u_record_info_out, u_anchor, u_msgs>>
    /\ UNCHANGED notUnion

\* Mutant: record_processor starts as soon as one input is complete
UnionAllComplete_any(all_inputs, inputs) ==
    \E idx \in DOMAIN all_inputs : inputs[all_inputs[idx]].input_complete

\* AyxPlugin.check_input_complete
UnionAllComplete(all_inputs, inputs) ==
    \A idx \in DOMAIN all_inputs : inputs[all_inputs[idx]].input_complete

\* ii_close, with check_input_complete and record_processor when it runs
Union_ii_close ==
    /\ u_pc = "wired"
    /\ \E w \in UnionWires :
          /\ u_inputs[w].wired
          /\ u_inputs[w].record_info_in # NoLayout
          /\ ~u_inputs[w].input_complete
          /\ LET inputs1 == [u_inputs EXCEPT ![w].input_complete = TRUE]
             IN IF UnionAllComplete(u_all_inputs, inputs1)
                THEN LET order == SortedInputs(u_all_inputs)
                         acc   == SchemaLoop(order, 1, inputs1, u_message_type,
                                     [unique |-> u_unique_field_names, info_out |-> <<>>,
                                      new_fields |-> <<>>, msgs |-> <<>>,
                                      copiers |-> [x \in UnionWires |-> NoCopier]])
                     IN /\ u_all_inputs' = order
                        /\ u_unique_field_names' = acc.unique
                        /\ u_record_info_out' = acc.info_out
                        /\ u_msgs' = u_msgs \o acc.msgs
                        /\ u_inputs' = [x \in UnionWires |->
                               IF ~inputs1[x].wired THEN inputs1[x]
                               ELSE [inputs1[x] EXCEPT !.record_copier = acc.copiers[x]]]
                        /\ u_anchor' = u_anchor \o <<<<"init", acc.info_out>>>>
                               \o (IF UnionAbort(acc.new_fields, u_message_type)
                                   THEN <<>>
                                   ELSE UnionPushes(order, 1, inputs1, acc.copiers,
                                                    acc.info_out))
                               \o <<<<"close">>>>
                ELSE /\ u_inputs' = inputs1
                     /\ UNCHANGED <<u_all_inputs, u_unique_field_names,
                                    u_record_info_out, u_msgs, u_anchor>>
    /\ UNCHANGED <<u_pc, u_message_type>>
    /\ UNCHANGED notUnion

(***************************************************************************)
(* Python - Multiple Inputs (join)                                         *)
(***************************************************************************)
JoinSides == { "Left", "Right" }
JoinSideNo(side) == IF side = "Left" THEN 1 ELSE 2

JoinLayouts  == { <<"a">>, <<"a", "b">> }
\* The text of <LeftPrefix> / <RightPrefix>; "" stands for None (no text)
JoinPrefixes == { "", "p" }

\* The i-th record an upstream tool sends on a side
JoinInRecord(side, i, layout) ==
    [f \in DOMAIN layout |-> [rec |-> <<JoinSideNo(side), i>>, fld |-> layout[f]]]

\* left_input / right_input = None
JoinNoInput ==
    [wired |-> FALSE, rename_prefix |-> "", input_complete |-> FALSE,
     record_info_in |-> NoLayout, record_copier |-> NoCopier,
     record_list |-> <<>>, received |-> 0]

\* IncomingInterface.__init__  (received is history)
JoinNewInput(rename_prefix) ==
    [wired |-> TRUE, rename_prefix |-> rename_prefix, input_complete |-> FALSE,
     record_info_in |-> NoLayout, record_copier |-> NoCopier,
     record_list |-> <<>>, received |-> 0]

\* AyxPlugin.init_record_info_out: the child's fields, renamed, added to the layout
init_record_info_out(child, record_info_out) ==
    record_info_out \o
        [f \in DOMAIN child.record_info_in |->
            <<IF child.rename_prefix # "" THEN <<child.rename_prefix, "_">> ELSE <<>>,
              child.record_info_in[f]>>]

\* Mutant: the Left input always goes first
swap_outgoing_order_never(left_input, right_input) == <<"Left", "Right">>

\* AyxPlugin.swap_outgoing_order: <<first_half_output, second_half_output>>
swap_outgoing_order(left_input, right_input) ==
    LET min_n_records == Min(Len(left_input.record_list), Len(right_input.record_list))
        max_n_records == Max(Len(left_input.record_list), Len(right_input.record_list))
    IN IF min_n_records # max_n_records
       THEN LET first_half_output ==
                    IF min_n_records = Len(left_input.record_list) THEN "Left" ELSE "Right"
            IN <<first_half_output,
                 IF first_half_output = "Left" THEN "Right" ELSE "Left">>
       ELSE <<"Left", "Right">>

\* AyxPlugin.setup_record_copier of the join: input index -> output index
join_setup_record_copier(child, start_index) ==
    [index \in DOMAIN child.record_info_in |-> start_index + index]

\* RecordCopier.set_dest_to_null: every mapped field of the destination null
SetDestToNull(copier, dest) ==
    [o \in DOMAIN dest |->
        IF \E j \in DOMAIN copier : copier[j] = o THEN UnionNull ELSE dest[o]]

\* The zip_longest loop of process_output from pair i on: the calls on the
\* anchor, and whether a None record was dereferenced.
RECURSIVE JoinLoop(_, _, _, _, _, _)
JoinLoop(first, second, fc, sc, i, record_creator) ==
    IF i > Max(Len(first.record_list), Len(second.record_list))
    THEN [calls |-> <<>>, crashed |-> FALSE]
    ELSE
      LET has0 == i <= Len(first.record_list)
          has1 == i <= Len(second.record_list)
          c1 == IF has0 THEN CopyRecord(fc, record_creator, first.record_list[i])
                ELSE SetDestToNull(fc, record_creator)
      IN IF ~has1
         THEN [calls |-> <<>>, crashed |-> TRUE]
         ELSE LET c2   == CopyRecord(sc, c1, second.record_list[i])
                  rest == JoinLoop(first, second, fc, sc, i + 1, c2)
              IN [calls |-> <<<<"push_record", c2>>>> \o rest.calls,
                  crashed |-> rest.crashed]

\* AyxPlugin.process_output
process_output(input) ==
    LET halves == swap_outgoing_order(input["Left"], input["Right"])
        first  == input[halves[1]]
        second == input[halves[2]]
        record_info_out == init_record_info_out(second, init_record_info_out(first, <<>>))
        fc == join_setup_record_copier(first, 0)
        sc == join_setup_record_copier(second, Len(first.record_info_in))
        loop == JoinLoop(first, second, fc, sc, 1, NullRecord(record_info_out))
    IN [calls |-> <<<<"init", record_info_out>>>> \o loop.calls
                    \o (IF loop.crashed THEN <<>> ELSE <<<<"close">>>>),
        crashed |-> loop.crashed,
        input |-> [input EXCEPT ![halves[1]].record_copier = fc,
                                ![halves[2]].record_copier = sc]]

JoinConstructed ==
    /\ j_pc = "new"
    /\ j_prefix = [side \in JoinSides |-> ""]
    /\ j_input = [side \in JoinSides |-> JoinNoInput]
    /\ j_anchor = <<>>
    /\ j_msgs = <<>>
    /\ j_crashed = FALSE
    /\ j_closed = <<>>

Join_pi_init ==
    /\ j_pc = "new"
    /\ \E l \in JoinPrefixes, r \in JoinPrefixes :
          j_prefix' = [side \in JoinSides |-> IF side = "Left" THEN l ELSE r]
    /\ j_pc' = "wired"
    /\ UNCHANGED <<j_input, j_anchor, j_msgs, j_crashed, j_closed>>
    /\ UNCHANGED notJoin

\* The engine wires every connection before it sends any metadata.
Join_pi_add_incoming_connection ==
    /\ j_pc = "wired"
    /\ \A side \in JoinSides : j_input[side].record_info_in = NoLayout
    /\ \E str_type \in JoinSides :
          /\ ~j_input[str_type].wired
          /\ j_input' = [j_input EXCEPT ![str_type] = JoinNewInput(j_prefix[str_type])]
    /\ UNCHANGED <<j_pc, j_prefix, j_anchor, j_msgs, j_crashed, j_closed>>
    /\ UNCHANGED notJoin

Join_ii_init ==
    /\ j_pc = "wired"
    /\ \E side \in JoinSides, layout \in JoinLayouts :
          /\ j_input[side].wired
          /\ j_input[side].record_info_in = NoLayout
          /\ j_input' = [j_input EXCEPT ![side] =
                 [@ EXCEPT !.record_copier = [index \in DOMAIN layout |-> index],
                           !.record_info_in = layout]]
    /\ UNCHANGED <<j_pc, j_prefix, j_anchor, j_msgs, j_crashed, j_closed>>
    /\ UNCHANGED notJoin

Join_ii_push_record ==
    /\ j_pc = "wired"
    /\ \E side \in JoinSides :
          /\ j_input[side].wired
          /\ j_input[side].record_info_in # NoLayout
          /\ ~j_input[side].input_complete
          /\ j_input[side].received < MaxJoinRecords
          /\ LET layout    == j_input[side].record_info_in
                 in_record == JoinInRecord(side, j_input[side].received + 1, layout)
             IN j_input' = [j_input EXCEPT
                    ![side].record_list =
                        Append(@, CopyRecord(j_input[side].record_copier,
                                             NullRecord(layout), in_record)),
                    ![side].received = @ + 1]
    /\ UNCHANGED <<j_pc, j_prefix, j_anchor, j_msgs, j_crashed, j_closed>>
    /\ UNCHANGED notJoin

\* Mutant: process_output starts when either input is complete
JoinBothComplete_either(input) ==
    input["Right"].input_complete \/ input["Left"].input_complete

\* The inner test of check_input_complete
JoinBothComplete(input) ==
    input["Right"].input_complete /\ input["Left"].input_complete

\* ii_close, with check_input_complete and process_output when it runs
Join_ii_close ==
    /\ j_pc = "wired"
    /\ \E side \in JoinSides :
          /\ j_input[side].wired
          /\ j_input[side].record_info_in # NoLayout
          /\ ~j_input[side].input_complete
          /\ j_closed' = Append(j_closed, side)
          /\ LET input1 == [j_input EXCEPT ![side].input_complete = TRUE]
             IN IF input1["Right"].wired /\ input1["Left"].wired
                THEN IF JoinBothComplete(input1)
                     THEN LET out == process_output(input1)
                          IN /\ j_anchor' = j_anchor \o out.calls
                             /\ j_crashed' = out.crashed
                             /\ j_input' = out.input
                             /\ j_msgs' = j_msgs
                     ELSE /\ j_input' = input1
                          /\ UNCHANGED <<j_anchor, j_crashed, j_msgs>>
                ELSE /\ j_input' = input1
                     /\ j_msgs' = Append(j_msgs,
                            "Both left and right inputs must have connections")
                     /\ UNCHANGED <<j_anchor, j_crashed>>
    /\ UNCHANGED <<j_pc, j_prefix>>
    /\ UNCHANGED notJoin

(***************************************************************************)
(* PyMultipleOutputsToolExample (set-based unique / duplicate)             *)
(***************************************************************************)
\* Values of the selected field: null, the empty string, two texts
KeyValues ==
    { [null |-> TRUE,  text |-> ""],  [null |-> FALSE, text |-> ""],
      [null |-> FALSE, text |-> "x"], [null |-> FALSE, text |-> "y"] }

\* Field.get_as_string: None for a null value
get_as_string(v) == IF v.null THEN None ELSE v.text

\* Mutant: a set that did not grow still counts as a new unique record
set_output_direction_ge(key_set_current, key_set_previous_len) ==
    IF Cardinality(key_set_current) >= key_set_previous_len
    THEN "Unique" ELSE "Duplicate"

\* NonInterface.set_output_direction: the target anchor
set_output_direction(key_set_current, key_set_previous_len) ==
    IF Cardinality(key_set_current) > key_set_previous_len
    THEN "Unique" ELSE "Duplicate"

\* NonInterface.set_key_set_previous_len: the new key_set_previous_len
set_key_set_previous_len(key_set_current) == Cardinality(key_set_current)

DedupConstructed ==
    /\ d_pc = "new"
    /\ d_initialized = FALSE
    /\ d_key_set_current = {}
    /\ d_key_set_previous_len = 0
    /\ d_target = None
    /\ d_unique = <<>>
    /\ d_dupe = <<>>
    /\ d_ret = TRUE
    /\ d_received = <<>>

Dedup_pi_init ==
    /\ d_pc = "new"
    /\ d_pc' = "configured"
    /\ UNCHANGED <<d_initialized, d_key_set_current, d_key_set_previous_len,
                   d_target, d_unique, d_dupe, d_ret, d_received>>
    /\ UNCHANGED notDedup

Dedup_ii_init ==
    /\ d_pc = "configured"
    /\ ~d_initialized
    /\ d_initialized' = TRUE
    /\ UNCHANGED <<d_pc, d_key_set_current, d_key_set_previous_len,
                   d_target, d_unique, d_dupe, d_ret, d_received>>
    /\ UNCHANGED notDedup

\* The anchor's push_record answers True or False as the host decides.
Dedup_ii_push_record ==
    /\ d_pc = "configured"
    /\ Len(d_received) < MaxDedupRecords
    /\ \E v \in KeyValues, answer \in BOOLEAN :
          IF ~d_initialized
          THEN /\ d_ret' = FALSE
               /\ UNCHANGED <<d_key_set_current, d_key_set_previous_len, d_target,
                              d_unique, d_dupe, d_received>>
          ELSE LET in_record == [id |-> Len(d_received) + 1, value |-> v]
                   key_set   == d_key_set_current \cup {get_as_string(v)}
                   target    == set_output_direction(key_set, d_key_set_previous_len)
               IN /\ d_received' = Append(d_received, in_record)
                  /\ d_key_set_current' = key_set
                  /\ d_target' = target
                  /\ d_key_set_previous_len' = set_key_set_previous_len(key_set)
                  /\ IF target = "Unique"
                     THEN d_unique' = Append(d_unique, in_record) /\ d_dupe' = d_dupe
                     ELSE d_dupe' = Append(d_dupe, in_record) /\ d_unique' = d_unique
                  /\ d_ret' = answer
    /\ UNCHANGED <<d_pc, d_initialized>>
    /\ UNCHANGED notDedup

Dedup_ii_close ==
    /\ d_pc = "configured"
    /\ d_initialized
    /\ d_pc' = "closed"
    /\ UNCHANGED <<d_initialized, d_key_set_current, d_key_set_previous_len,
                   d_target, d_unique, d_dupe, d_ret, d_received>>
    /\ UNCHANGED notDedup

(***************************************************************************)
(* Python - Multiple Outputs (sorted unique / duplicate)                   *)
(***************************************************************************)
\* The text of <FieldSelect>, or None without one
FieldSelections == { "f", None }

\* The ascending order pre_sort puts the stream in: nulls first
SortRank(v) ==
    IF v.null THEN 0 ELSE IF v.text = "" THEN 1 ELSE IF v.text = "x" THEN 2 ELSE 3

MultiOutConstructed ==
    /\ m_pc = "new"
    /\ m_field_selection = None
    /\ m_previous_value = None
    /\ m_records_unique = 0
    /\ m_records_dupe = 0
    /\ m_unique = <<>>
    /\ m_dupe = <<>>
    /\ m_msgs = <<>>
    /\ m_ret = TRUE
    /\ m_received = <<>>

MultiOut_pi_init ==
    /\ m_pc = "new"
    /\ \E sel \in FieldSelections : m_field_selection' = sel
    /\ m_pc' = "configured"
    /\ UNCHANGED <<m_previous_value, m_records_unique, m_records_dupe, m_unique,
                   m_dupe, m_msgs, m_ret, m_received>>
    /\ UNCHANGED notMultiOut

MultiOut_ii_init ==
    /\ m_pc = "configured"
    /\ IF m_field_selection = None
       THEN /\ m_msgs' = Append(m_msgs, [type |-> "error", unique |-> 0, dupes |-> 0])
            /\ m_ret' = FALSE
            /\ m_pc' = "failed"
       ELSE /\ m_msgs' = m_msgs
            /\ m_ret' = TRUE
            /\ m_pc' = "streaming"
    /\ UNCHANGED <<m_field_selection, m_previous_value, m_records_unique,
                   m_records_dupe, m_unique, m_dupe, m_received>>
    /\ UNCHANGED notMultiOut

\* The comparison of ii_push_record
IsDupe(current_value, previous_value) == current_value = previous_value

\* The stream is presorted ascending on the selected field.
MultiOut_ii_push_record ==
    /\ m_pc = "streaming"
    /\ Len(m_received) < MaxMultiOutRecords
    /\ \E v \in KeyValues :
          /\ m_received # <<>> =>
                SortRank(m_received[Len(m_received)].value) <= SortRank(v)
          /\ LET in_record     == [id |-> Len(m_received) + 1, value |-> v]
                 current_value == get_as_string(v)
             IN /\ m_received' = Append(m_received, in_record)
                /\ IF IsDupe(current_value, m_previous_value)
                   THEN m_dupe' = Append(m_dupe, in_record) /\ m_unique' = m_unique
                   ELSE m_unique' = Append(m_unique, in_record) /\ m_dupe' = m_dupe
                /\ m_previous_value' = current_value
                /\ m_ret' = TRUE
    /\ UNCHANGED <<m_pc, m_field_selection, m_records_unique, m_records_dupe, m_msgs>>
    /\ UNCHANGED notMultiOut

MultiOut_ii_close ==
    /\ m_pc = "streaming"
    /\ m_msgs' = Append(m_msgs, [type |-> "info", unique |-> m_records_unique,
                                 dupes |-> m_records_dupe])
    /\ m_pc' = "closed"
    /\ UNCHANGED <<m_field_selection, m_previous_value, m_records_unique,
                   m_records_dupe, m_unique, m_dupe, m_ret, m_received>>
    /\ UNCHANGED notMultiOut

(***************************************************************************)
(* Python - Input (csv reader)                                             *)
(***************************************************************************)
\* The text of a data row
InRowValues == { "x", "y" }

\* The data rows of the csv files: a header line is followed by k data rows
CsvFiles == UNION { [1..k -> InRowValues] : k \in 0..MaxCsvRows }

NoRows == <<>>

\* A configured path: its text, what os.path.splitext gives as extension,
\* whether os.path.exists finds it, and the data rows of the file.
InPaths ==
    { [name |-> "",            ext |-> "",     exists |-> FALSE, rows |-> NoRows],
      [name |-> "missing.txt", ext |-> ".txt", exists |-> FALSE, rows |-> NoRows],
      [name |-> "data.txt",    ext |-> ".txt", exists |-> TRUE,  rows |-> NoRows],
      [name |-> "missing.csv", ext |-> ".csv", exists |-> FALSE, rows |-> NoRows] }
    \cup { [name |-> "data.csv", ext |-> ".csv", exists |-> TRUE, rows |-> f] : f \in CsvFiles }
    \cup { [name |-> "DATA.CSV", ext |-> ".CSV", exists |-> TRUE, rows |-> f] : f \in CsvFiles }

InNoPath == [name |-> "", ext |-> "", exists |-> FALSE, rows |-> NoRows]

\* The n_record_limit the engine may pass
InRecordLimits == (0 - 1)..MaxRecordLimit

\* str.lower on the extensions above
lower(ext) == IF ext = ".CSV" THEN ".csv" ELSE ext

\* Mutant: is_csv comparing the extension as written
is_csv_case_sensitive(file_path) == file_path.ext = ".csv"

\* AyxPlugin.is_csv
is_csv(file_path) == lower(file_path.ext) = ".csv"

\* AyxPlugin.display_error_msg
InDisplayErrorMsg(msg_string) ==
    /\ i_is_initialized' = FALSE
    /\ i_msgs' = Append(i_msgs, [type |-> "error", text |-> msg_string])

InputConstructed ==
    /\ i_pc = "new"
    /\ i_file_path = InNoPath
    /\ i_is_initialized = TRUE
    /\ i_anchor = <<>>
    /\ i_msgs = <<>>
    /\ i_ret = None
    /\ i_update_only = None
    /\ i_n_record_limit = None

In_pi_init ==
    /\ i_pc = "new"
    /\ \E p \in InPaths :
          /\ i_file_path' = p
          /\ IF p.name = ""
             THEN InDisplayErrorMsg("Please specify a csv file")
             ELSE IF ~is_csv(p)
             THEN InDisplayErrorMsg("This tool only accepts csv files")
             ELSE IF ~p.exists
             THEN InDisplayErrorMsg("No such file or directory")
             ELSE UNCHANGED <<i_is_initialized, i_msgs>>
    /\ i_pc' = "configured"
    /\ UNCHANGED <<i_anchor, i_ret, i_update_only, i_n_record_limit>>
    /\ UNCHANGED notInput

\* round(total_records * .30, 0): the nearest integer, a tie going to the
\* even one
InProgressStep(total_records) ==
    LET q == (3 * total_records) \div 10
        r == (3 * total_records) % 10
    IN  IF r < 5 THEN q
        ELSE IF r > 5 THEN q + 1
        ELSE IF q % 2 = 0 THEN q ELSE q + 1

InCall(op, rec, at) == [op |-> op, rec |-> rec, at |-> at]

\* The record loop of pi_push_all_records from the record of index i on:
\* the calls it makes on the output anchor, and whether it raised.  The
\* modulo of the progress test raises ZeroDivisionError when the step is 0.
RECURSIVE InPushLoop(_, _, _)
InPushLoop(rows, i, total_records) ==
    IF i >= Len(rows) THEN [calls |-> <<>>, raised |-> FALSE]
    ELSE LET push == InCall("push_record", rows[i + 1], <<>>)
             step == InProgressStep(total_records)
         IN  IF step = 0 THEN [calls |-> <<push>>, raised |-> TRUE]
             ELSE LET rest == InPushLoop(rows, i + 1, total_records)
                      progress == IF i % step = 0
                                  THEN <<InCall("update_progress", "", <<i, total_records>>)>>
                                  ELSE <<>>
                  IN  [calls |-> <<push>> \o progress \o rest.calls,
                       raised |-> rest.raised]

In_pi_push_all_records ==
    /\ i_pc = "configured"
    /\ \E n_record_limit \in InRecordLimits, update_only \in {"True", "False"} :
          /\ i_n_record_limit' = n_record_limit
          /\ i_update_only' = update_only
          /\ IF ~i_is_initialized
             THEN /\ i_ret' = "False"
                  /\ UNCHANGED <<i_anchor, i_msgs>>
             ELSE IF update_only = "True"
             THEN /\ i_ret' = "False"
                  /\ UNCHANGED <<i_anchor, i_msgs>>
             ELSE LET total_records == Len(i_file_path.rows)
                      loop == InPushLoop(i_file_path.rows, 0, total_records)
                      init == InCall("init", "", <<>>)
                  IN  IF loop.raised
                      THEN /\ i_anchor' = i_anchor \o <<init>> \o loop.calls
                           /\ i_ret' = "raised"
                           /\ i_msgs' = i_msgs
                      ELSE /\ i_anchor' = i_anchor \o <<init>> \o loop.calls
                                             \o <<InCall("close", "", <<>>)>>
                           /\ i_msgs' = Append(i_msgs, [type |-> "info",
                                                        text |-> "records were read"])
                           /\ i_ret' = "True"
    /\ i_pc' = "pushed"
    /\ UNCHANGED <<i_file_path, i_is_initialized>>
    /\ UNCHANGED notInput

In_pi_close ==
    /\ i_pc = "pushed"
    /\ i_pc' = "closed"
    /\ UNCHANGED <<i_file_path, i_is_initialized, i_anchor, i_msgs, i_ret,
                   i_update_only, i_n_record_limit>>
    /\ UNCHANGED notInput


(***************************************************************************)
(* Python - Optional Input (record ID)                                     *)
(***************************************************************************)
\* The <FieldName> of the configuration: absent, or a text of some length
OptInFieldNames ==
    { [missing |-> TRUE,  len |-> 0],
      [missing |-> FALSE, len |-> 2],
      [missing |-> FALSE, len |-> 255],
      [missing |-> FALSE, len |-> 256] }

OptInNoName == [missing |-> TRUE, len |-> 0]

\* <StartValue>, <StepByValue> and <EndValue> of the configuration
OptInStartValues == { 0, 5 }
OptInStepByValues == { 0 - 1, 1, 2 }
OptInEndValues == (0 - 1)..MaxEndValue

\* Incoming records and the n_record_limit the engine may pass
OptInRecords == { "r1", "r2" }
OptInRecordLimits == (0 - 1)..MaxRecordLimit

OptInCall(op, rec, value) == [op |-> op, rec |-> rec, value |-> value]

\* Mutant: display_error_msg leaving is_initialized alone
OptInDisplayErrorMsg_keeps_flag(msg_string) ==
    /\ g_is_initialized' = g_is_initialized
    /\ g_msgs' = Append(g_msgs, [type |-> "error", text |-> msg_string])

\* AyxPlugin.display_error_msg
OptInDisplayErrorMsg(msg_string) ==
    /\ g_is_initialized' = FALSE
    /\ g_msgs' = Append(g_msgs, [type |-> "error", text |-> msg_string])

OptInConstructed ==
    /\ g_pc = "new"
    /\ g_is_initialized = TRUE
    /\ g_single_input = FALSE
    /\ g_column_name = OptInNoName
    /\ g_starting_value = 0
    /\ g_total_record_count = 0
    /\ g_record_increment = 0
    /\ g_anchor = <<>>
    /\ g_msgs = <<>>
    /\ g_ret = <<>>
    /\ g_start_value = 0
    /\ g_received = <<>>
    /\ g_n_record_limit = 0

OptIn_pi_init ==
    /\ g_pc = "new"
    /\ \E name \in OptInFieldNames, s \in OptInStartValues,
          d \in OptInStepByValues, n \in OptInEndValues :
          /\ g_column_name' = name
          /\ g_total_record_count' = n
          /\ g_record_increment' = d
          /\ g_starting_value' = s - d
          /\ g_start_value' = s
          /\ IF name.missing
             THEN OptInDisplayErrorMsg("Field name cannot be empty. Please enter a field name.")
             ELSE IF name.len > 255
             THEN OptInDisplayErrorMsg("Field name cannot be greater then 255 characters.")
             ELSE UNCHANGED <<g_is_initialized, g_msgs>>
    /\ g_pc' = "configured"
    /\ UNCHANGED <<g_single_input, g_anchor, g_ret, g_received, g_n_record_limit>>
    /\ UNCHANGED notOptIn

OptIn_pi_add_incoming_connection ==
    /\ g_pc = "configured"
    /\ g_single_input' = TRUE
    /\ g_pc' = "connected"
    /\ UNCHANGED <<g_is_initialized, g_column_name, g_starting_value,
                   g_total_record_count, g_record_increment, g_anchor, g_msgs,
                   g_ret, g_start_value, g_received, g_n_record_limit>>
    /\ UNCHANGED notOptIn

\* Mutant: the loop of pi_push_all_records stopping one record early
RECURSIVE OptInPushLoop_short(_, _, _, _)
OptInPushLoop_short(i, total_record_count, previous_inc_value, record_increment) ==
    IF i >= total_record_count - 1 THEN <<>>
    ELSE LET loop_value == previous_inc_value + record_increment
         IN  <<OptInCall("push_record", "", loop_value)>>
                \o OptInPushLoop_short(i + 1, total_record_count, loop_value, record_increment)

\* "for i in range(0, self.total_record_count)" of pi_push_all_records from
\* index i on: the calls it makes on the output anchor
RECURSIVE OptInPushLoop(_, _, _, _)
OptInPushLoop(i, total_record_count, previous_inc_value, record_increment) ==
    IF i >= total_record_count THEN <<>>
    ELSE LET loop_value == previous_inc_value + record_increment
         IN  <<OptInCall("push_record", "", loop_value)>>
                \o OptInPushLoop(i + 1, total_record_count, loop_value, record_increment)

OptIn_pi_push_all_records ==
    /\ g_pc = "configured"
    /\ \E n_record_limit \in OptInRecordLimits :
          g_n_record_limit' = n_record_limit
    /\ IF ~g_is_initialized
       THEN /\ g_ret' = Append(g_ret, "False")
            /\ g_anchor' = g_anchor
       ELSE /\ g_anchor' = g_anchor \o <<OptInCall("init", "", 0)>>
                              \o OptInPushLoop(0, g_total_record_count,
                                               g_starting_value, g_record_increment)
                              \o <<OptInCall("close", "", 0)>>
            /\ g_ret' = Append(g_ret, "True")
    /\ g_pc' = "pushed"
    /\ UNCHANGED <<g_is_initialized, g_single_input, g_column_name, g_starting_value,
                   g_total_record_count, g_record_increment, g_msgs, g_start_value,
                   g_received>>
    /\ UNCHANGED notOptIn

OptIn_ii_init ==
    /\ g_pc = "connected"
    /\ IF ~g_is_initialized
       THEN /\ g_ret' = Append(g_ret, "False")
            /\ g_anchor' = g_anchor
       ELSE /\ g_anchor' = Append(g_anchor, OptInCall("init", "", 0))
            /\ g_ret' = Append(g_ret, "True")
    /\ g_pc' = "streaming"
    /\ UNCHANGED <<g_is_initialized, g_single_input, g_column_name, g_starting_value,
                   g_total_record_count, g_record_increment, g_msgs, g_start_value,
                   g_received, g_n_record_limit>>
    /\ UNCHANGED notOptIn

\* "self.parent.starting_value += self.parent.record_increment"
OptInNextValue(starting_value, record_increment) == starting_value + record_increment

OptIn_ii_push_record ==
    /\ g_pc = "streaming"
    /\ Len(g_received) < MaxOptInRecords
    /\ \E in_record \in OptInRecords :
          /\ g_received' = Append(g_received, in_record)
          /\ IF ~g_is_initialized
             THEN /\ g_ret' = Append(g_ret, "False")
                  /\ UNCHANGED <<g_starting_value, g_anchor>>
             ELSE LET value == OptInNextValue(g_starting_value, g_record_increment)
                  IN  /\ g_starting_value' = value
                      /\ g_anchor' = Append(g_anchor, OptInCall("push_record", in_record, value))
                      \* the answer of output_anchor.push_record is returned
                      /\ \E downstream \in {"True", "False"} :
                            g_ret' = Append(g_ret, downstream)
    /\ UNCHANGED <<g_pc, g_is_initialized, g_single_input, g_column_name,
                   g_total_record_count, g_record_increment, g_msgs, g_start_value,
                   g_n_record_limit>>
    /\ UNCHANGED notOptIn

OptIn_ii_close ==
    /\ g_pc = "streaming"
    /\ g_anchor' = Append(g_anchor, OptInCall("close", "", 0))
    /\ g_pc' = "closed"
    /\ UNCHANGED <<g_is_initialized, g_single_input, g_column_name, g_starting_value,
                   g_total_record_count, g_record_increment, g_msgs, g_ret,
                   g_start_value, g_received, g_n_record_limit>>
    /\ UNCHANGED notOptIn


(***************************************************************************)
(* PySortedInputToolExample (min / max)                                    *)
(***************************************************************************)
\* <operationSelect> of the configuration; "other" stands for any text that
\* is neither "min" nor "max"
SortedAggregations == { "min", "max", "other" }

\* <FieldSelect> of the configuration
SortedFieldSelection == "v"

\* The type of the incoming field and the values of its records
SortedFieldTypes == { "Int32", "V_String" }
SortedNumericTypes == { "Byte", "Int16", "Int32", "Int64", "FixedDecimal", "Float", "Double" }
SortedValues == { 1, 2, 3 }

SortedCall(op, value) == [op |-> op, value |-> value]

\* NonInterface.build_sort_info: one more element appended to xml_sort_info
build_sort_info(xml_sort_info, element, subelement, order) ==
    Append(xml_sort_info, [element |-> element, field |-> subelement, order |-> order])

SortedConstructed ==
    /\ s_pc = "new"
    /\ s_selected_aggregation = None
    /\ s_xml_sort_info = <<>>
    /\ s_pre_sort = <<>>
    /\ s_initialized = FALSE
    /\ s_anchor = <<>>
    /\ s_msgs = <<>>
    /\ s_ret = <<>>
    /\ s_received = <<>>

\* The order pi_init passes to build_sort_info for the SortInfo element
SortedOrderOf(selected_aggregation) ==
    IF selected_aggregation = "min" THEN "Asc"
    ELSE IF selected_aggregation = "max" THEN "Desc"
    ELSE ""

Sorted_pi_init ==
    /\ s_pc = "new"
    /\ \E aggregation \in SortedAggregations :
          LET sorted == IF SortedOrderOf(aggregation) # ""
                        THEN build_sort_info(s_xml_sort_info, "SortInfo",
                                             SortedFieldSelection, SortedOrderOf(aggregation))
                        ELSE s_xml_sort_info
          IN  /\ s_selected_aggregation' = aggregation
              /\ s_xml_sort_info' = build_sort_info(sorted, "FieldFilterList",
                                                    SortedFieldSelection, "")
    /\ s_pc' = "configured"
    /\ UNCHANGED <<s_pre_sort, s_initialized, s_anchor, s_msgs, s_ret, s_received>>
    /\ UNCHANGED notSorted

Sorted_pi_add_incoming_connection ==
    /\ s_pc = "configured"
    /\ s_pre_sort' = s_xml_sort_info
    /\ s_pc' = "connected"
    /\ UNCHANGED <<s_selected_aggregation, s_xml_sort_info, s_initialized, s_anchor,
                   s_msgs, s_ret, s_received>>
    /\ UNCHANGED notSorted

Sorted_ii_init ==
    /\ s_pc = "connected"
    /\ \E field_type \in SortedFieldTypes :
          IF field_type \notin SortedNumericTypes
          THEN /\ s_msgs' = Append(s_msgs, [type |-> "error",
                                            text |-> "Selected A Non-Numeric Field"])
               /\ UNCHANGED <<s_initialized, s_anchor>>
          ELSE /\ s_anchor' = Append(s_anchor, SortedCall("init", 0))
               /\ s_initialized' = TRUE
               /\ s_msgs' = s_msgs
    /\ s_pc' = "streaming"
    /\ UNCHANGED <<s_selected_aggregation, s_xml_sort_info, s_pre_sort, s_ret, s_received>>
    /\ UNCHANGED notSorted

\* The engine's pre_sort: the stream arrives in the order the SortInfo
\* element asks for; value may follow the records received so far
SortedInOrder(pre_sort, received, value) ==
    IF received = <<>> THEN TRUE
    ELSE \A k \in DOMAIN pre_sort :
            pre_sort[k].element = "SortInfo" =>
                /\ pre_sort[k].order = "Asc"  => received[Len(received)] <= value
                /\ pre_sort[k].order = "Desc" => received[Len(received)] >= value

\* ii_push_record.  record_creator and record_copier are set by the branch
\* of ii_init that sets initialized; without them the first statement raises.
Sorted_ii_push_record ==
    /\ s_pc = "streaming"
    /\ Len(s_received) < MaxSortedRecords
    /\ \E value \in SortedValues :
          /\ SortedInOrder(s_pre_sort, s_received, value)
          /\ s_received' = Append(s_received, value)
          /\ IF s_initialized
             THEN /\ s_anchor' = Append(s_anchor, SortedCall("push_record", value))
                  /\ s_ret' = Append(s_ret, "False")
             ELSE /\ s_anchor' = s_anchor
                  /\ s_ret' = Append(s_ret, "raised")
    /\ UNCHANGED <<s_pc, s_selected_aggregation, s_xml_sort_info, s_pre_sort,
                   s_initialized, s_msgs>>
    /\ UNCHANGED notSorted

Sorted_ii_close ==
    /\ s_pc = "streaming"
    /\ s_anchor' = Append(s_anchor, SortedCall("close", 0))
    /\ s_pc' = "closed"
    /\ UNCHANGED <<s_selected_aggregation, s_xml_sort_info, s_pre_sort, s_initialized,
                   s_msgs, s_ret, s_received>>
    /\ UNCHANGED notSorted


(***************************************************************************)
(* PyMultipleInputsToolExample (binary compatibility)                      *)
(***************************************************************************)
\* The two incoming connections; both are served by the one AyxPlugin object
CompatConnections == { 1, 2 }

\* Incoming layouts, by the types of their fields
CompatFieldTypes == { "Int32", "String" }
CompatLayouts == [1..1 -> CompatFieldTypes] \cup [1..2 -> CompatFieldTypes]

\* One ii_ call and what it did: the connection it came on, the records it
\* pushed, whether it reported progress and how it ended
CompatCall(op, conn, pushed, reported, ret) ==
    [op |-> op, conn |-> conn, pushed |-> pushed, reported |-> reported, ret |-> ret]

CompatAnchorCall(op, rec) == [op |-> op, rec |-> rec]

CompatConstructed ==
    /\ b_pc = [c \in CompatConnections |-> "new"]
    /\ b_is_left = TRUE
    /\ b_hash_left = <<>>
    /\ b_hash_right = <<>>
    /\ b_fields_left = <<>>
    /\ b_fields_right = <<>>
    /\ b_record_creator = FALSE
    /\ b_anchor = <<>>
    /\ b_progress = <<>>
    /\ b_calls = <<>>

\* NonInterface.is_compatible
is_compatible(hash_left, hash_right) == hash_left = hash_right

\* NonInterface.is_equal: Field.equal_type of the two fields at index
is_equal(fields_right, fields_left, index) == fields_right[index] = fields_left[index]

\* NonInterface.validate_inputs raises when the counts differ
validate_inputs(left_count, right_count) == left_count = right_count

Compat_ii_init ==
    /\ \E c \in CompatConnections, record_info_in \in CompatLayouts :
          /\ b_pc[c] = "new"
          /\ b_pc' = [b_pc EXCEPT ![c] = "inited"]
          /\ IF b_is_left
             THEN /\ b_hash_left' = record_info_in
                  /\ b_fields_left' = b_fields_left \o record_info_in
                  /\ b_calls' = Append(b_calls, CompatCall("ii_init", c, 0, FALSE, "True"))
                  /\ UNCHANGED <<b_hash_right, b_fields_right, b_record_creator, b_anchor>>
             ELSE /\ b_hash_right' = record_info_in
                  /\ b_fields_right' = b_fields_right \o record_info_in
                  /\ IF validate_inputs(Len(b_fields_left),
                                        Len(b_fields_right \o record_info_in))
                     THEN /\ b_record_creator' = TRUE
                          /\ b_anchor' = Append(b_anchor, CompatAnchorCall("init", <<>>))
                          /\ b_calls' = Append(b_calls,
                                               CompatCall("ii_init", c, 0, FALSE, "True"))
                     ELSE /\ b_calls' = Append(b_calls,
                                               CompatCall("ii_init", c, 0, FALSE, "raised"))
                          /\ UNCHANGED <<b_record_creator, b_anchor>>
                  /\ UNCHANGED <<b_hash_left, b_fields_left>>
    /\ UNCHANGED <<b_is_left, b_progress>>
    /\ UNCHANGED notCompat

\* The record ii_push_record builds: the is_equal result of every field
\* twice, then is_compatible
CompatResult ==
    LET n == Len(b_fields_right)
    IN  [k \in 1..(n + Len(b_fields_left) + 1) |->
            IF k <= n THEN is_equal(b_fields_right, b_fields_left, k)
            ELSE IF k <= 2 * n THEN is_equal(b_fields_right, b_fields_left, k - n)
            ELSE is_compatible(b_hash_left, b_hash_right)]

\* ii_push_record.  When record_creator is still None its first statement
\* on the right-hand branch raises.
Compat_ii_push_record ==
    /\ Len(b_calls) < MaxCompatCalls
    /\ \E c \in CompatConnections :
          /\ b_pc[c] = "inited"
          /\ IF b_is_left
             THEN /\ b_calls' = Append(b_calls, CompatCall("ii_push_record", c, 0, FALSE, "False"))
                  /\ b_anchor' = b_anchor
             ELSE IF ~b_record_creator
             THEN /\ b_calls' = Append(b_calls, CompatCall("ii_push_record", c, 0, FALSE, "raised"))
                  /\ b_anchor' = b_anchor
             ELSE /\ b_anchor' = Append(b_anchor, CompatAnchorCall("push_record", CompatResult))
                  /\ b_calls' = Append(b_calls, CompatCall("ii_push_record", c, 1, FALSE, "False"))
    /\ UNCHANGED <<b_pc, b_is_left, b_hash_left, b_hash_right, b_fields_left,
                   b_fields_right, b_record_creator, b_progress>>
    /\ UNCHANGED notCompat

Compat_ii_update_progress ==
    /\ Len(b_calls) < MaxCompatCalls
    /\ \E c \in CompatConnections :
          /\ b_pc[c] = "inited"
          /\ IF b_is_left
             THEN /\ b_calls' = Append(b_calls, CompatCall("ii_update_progress", c, 0, FALSE, "None"))
                  /\ UNCHANGED <<b_progress, b_anchor>>
             ELSE /\ b_progress' = Append(b_progress, c)
                  /\ b_anchor' = Append(b_anchor, CompatAnchorCall("update_progress", <<>>))
                  /\ b_calls' = Append(b_calls, CompatCall("ii_update_progress", c, 0, TRUE, "None"))
    /\ UNCHANGED <<b_pc, b_is_left, b_hash_left, b_hash_right, b_fields_left,
                   b_fields_right, b_record_creator>>
    /\ UNCHANGED notCompat

Compat_ii_close ==
    /\ \E c \in CompatConnections :
          /\ b_pc[c] = "inited"
          /\ b_pc' = [b_pc EXCEPT ![c] = "closed"]
          /\ b_calls' = Append(b_calls, CompatCall("ii_close", c, 0, FALSE, "None"))
          /\ IF b_is_left
             THEN /\ b_is_left' = ~b_is_left
                  /\ b_anchor' = b_anchor
             ELSE /\ b_anchor' = Append(b_anchor, CompatAnchorCall("close", <<>>))
                  /\ b_is_left' = b_is_left
    /\ UNCHANGED <<b_hash_left, b_hash_right, b_fields_left, b_fields_right,
                   b_record_creator, b_progress>>
    /\ UNCHANGED notCompat


(***************************************************************************)
(* Specifications                                                          *)
(***************************************************************************)
Constructed ==
    /\ OutConstructed /\ TopNConstructed /\ UnionConstructed /\ JoinConstructed
    /\ DedupConstructed /\ MultiOutConstructed
    /\ InputConstructed /\ OptInConstructed /\ SortedConstructed /\ CompatConstructed

OutNext ==
    \/ Out_pi_init
    \/ Out_ii_init
    \/ Out_ii_push_record
    \/ Out_ii_close

SpecOutput == Constructed /\ [][OutNext]_vars

TopNNext ==
    \/ TopN_pi_init
    \/ TopN_ii_push_record
    \/ TopN_ii_close

SpecTopN == Constructed /\ [][TopNNext]_vars

UnionNext ==
    \/ Union_pi_init
    \/ Union_pi_add_incoming_connection
    \/ Union_ii_init
    \/ Union_ii_push_record
    \/ Union_ii_close

SpecUnion == Constructed /\ [][UnionNext]_vars

JoinNext ==
    \/ Join_pi_init
    \/ Join_pi_add_incoming_connection
    \/ Join_ii_init
    \/ Join_ii_push_record
    \/ Join_ii_close

SpecJoin == Constructed /\ [][JoinNext]_vars

DedupNext ==
    \/ Dedup_pi_init
    \/ Dedup_ii_init
    \/ Dedup_ii_push_record
    \/ Dedup_ii_close

SpecDedup == Constructed /\ [][DedupNext]_vars

MultiOutNext ==
    \/ MultiOut_pi_init
    \/ MultiOut_ii_init
    \/ MultiOut_ii_push_record
    \/ MultiOut_ii_close

SpecMultiOut == Constructed /\ [][MultiOutNext]_vars

InputNext ==
    \/ In_pi_init
    \/ In_pi_push_all_records
    \/ In_pi_close

SpecInput == Constructed /\ [][InputNext]_vars

OptInNext ==
    \/ OptIn_pi_init
    \/ OptIn_pi_add_incoming_connection
    \/ OptIn_pi_push_all_records
    \/ OptIn_ii_init
    \/ OptIn_ii_push_record
    \/ OptIn_ii_close

SpecOptIn == Constructed /\ [][OptInNext]_vars

SortedNext ==
    \/ Sorted_pi_init
    \/ Sorted_pi_add_incoming_connection
    \/ Sorted_ii_init
    \/ Sorted_ii_push_record
    \/ Sorted_ii_close

SpecSorted == Constructed /\ [][SortedNext]_vars

CompatNext ==
    \/ Compat_ii_init
    \/ Compat_ii_push_record
    \/ Compat_ii_update_progress
    \/ Compat_ii_close

SpecCompat == Constructed /\ [][CompatNext]_vars

(***************************************************************************)
(* Claims                                                                  *)
(***************************************************************************)
OutHeader == [f \in DOMAIN o_record_info_in |-> o_record_info_in[f]]
OutExpectedRows == [i \in DOMAIN o_received |-> OutRow(o_received[i])]

\* C1: with an accepted path, after ii_close the csv file is the header row
\* followed by the row of every record received by ii_push_record, each
\* exactly once and in arrival order, whatever the number of records is
\* relative to the chunk size.  Stated here for the runs that received at
\* least one record.
C1_FileIsHeaderThenAllRecords ==
    (o_pc = "closed" /\ o_is_valid /\ Len(o_received) >= 1)
        => o_file = <<OutHeader>> \o OutExpectedRows

\* C2: the k-th ii_push_record of the top-N tool pushes its record and
\* returns True when k <= N, pushes nothing and returns False when k > N;
\* after k calls the anchor holds exactly the first min(k, N) records
\* received, in arrival order.
C2_TopNPushesFirstN ==
    (t_pc # "new" /\ t_record_cnt >= 1)
        => /\ t_record_cnt = Len(t_received)
           /\ t_pushed_now = (t_record_cnt <= int(t_n_record_select))
           /\ t_ret = (t_record_cnt <= int(t_n_record_select))
           /\ t_anchor = SubSeq(t_received, 1,
                                Min(t_record_cnt, int(t_n_record_select)))

\* C2 witness: a call beyond a positive limit was refused after N pushes.
C2_Witness ==
    /\ t_pc = "streaming"
    /\ int(t_n_record_select) >= 2
    /\ t_record_cnt > int(t_n_record_select)
    /\ t_ret = FALSE
    /\ Len(t_anchor) = int(t_n_record_select)

\* ---- union tool
UnionWired == {w \in UnionWires : u_inputs[w].wired}
UnionDone  == UnionWired # {} /\ \A w \in UnionWired : u_inputs[w].input_complete

\* The processing order: the wired inputs by ascending last digit of the name
UnionOrder ==
    CHOOSE s \in [1..Cardinality(UnionWired) -> UnionWired] :
        /\ \A i, j \in DOMAIN s : i < j => s[i] # s[j] /\ s[i] % 10 <= s[j] % 10

UnionLayoutOf(i) == u_inputs[UnionOrder[i]].record_info_in

\* An input after the first brings a field name no earlier input has
UnionNewFieldAt(i) ==
    /\ i >= 2
    /\ \E f \in DOMAIN UnionLayoutOf(i) :
          \A k \in 1..(i-1) : UnionLayoutOf(i)[f] \notin Range(UnionLayoutOf(k))
UnionSomeNewField == \E i \in DOMAIN UnionOrder : UnionNewFieldAt(i)

UnionOps == [k \in DOMAIN u_anchor |-> u_anchor[k][1]]
UnionPushed == SelectSeq(u_anchor, LAMBDA e : e[1] = "push_record")

\* The record an output record was copied from
UnionIdOf(out) ==
    IF \E o \in DOMAIN out : out[o] # UnionNull
    THEN out[CHOOSE o \in DOMAIN out : out[o] # UnionNull].rec
    ELSE <<0, 0>>
UnionPushedIds == [k \in DOMAIN UnionPushed |-> UnionIdOf(UnionPushed[k][2])]

RECURSIVE UnionReceivedIds(_)
UnionReceivedIds(i) ==
    IF i > Len(UnionOrder) THEN <<>>
    ELSE [k \in 1..u_inputs[UnionOrder[i]].received |-> <<UnionOrder[i], k>>]
            \o UnionReceivedIds(i + 1)

\* C3: nothing is sent to the output anchor until every registered input
\* has received ii_close; the ii_close that completes the last input inits
\* the anchor once, pushes (unless the error mode's case of a new field
\* applies) every record received, inputs in processing order and records
\* in arrival order, each exactly once, and then closes the anchor once.
C3_UnionPushesAllAfterLastClose ==
    /\ ~UnionDone => u_anchor = <<>>
    /\ UnionDone =>
          /\ Len(u_anchor) >= 2
          /\ UnionOps[1] = "init"
          /\ UnionOps[Len(u_anchor)] = "close"
          /\ \A k \in 2..(Len(u_anchor) - 1) : UnionOps[k] = "push_record"
          /\ ~(u_message_type = "error" /\ UnionSomeNewField)
                => UnionPushedIds = UnionReceivedIds(1)

\* C3 witness: three inputs, two of them with two records, all closed and
\* all records pushed.
C3_Witness ==
    /\ UnionDone
    /\ Cardinality(UnionWired) = 3
    /\ u_inputs[1].received = 2 /\ u_inputs[3].received = 2 /\ u_inputs[2].received = 1
    /\ u_inputs[1].record_info_in # u_inputs[2].record_info_in
    /\ Len(UnionPushed) = 5
    /\ UnionPushedIds = UnionReceivedIds(1)

\* Where a field name first appears: <<input, index>> in processing order
UnionFirstInput(name) ==
    CHOOSE i \in DOMAIN UnionOrder :
        /\ name \in Range(UnionLayoutOf(i))
        /\ \A k \in 1..(i-1) : name \notin Range(UnionLayoutOf(k))
UnionFirstIndex(name) == IndexOf(UnionLayoutOf(UnionFirstInput(name)), name)
UnionAppearsBefore(x, y) ==
    \/ UnionFirstInput(x) < UnionFirstInput(y)
    \/ UnionFirstInput(x) = UnionFirstInput(y) /\ UnionFirstIndex(x) < UnionFirstIndex(y)

\* C4: record_processor builds the output layout as the union of the
\* inputs' field names, the first input's fields first and then every later
\* input's new names in order of first appearance, no name twice; and the
\* record copier of every input maps each of its fields to the output
\* position that holds the same name.
C4_UnionLayoutAndMapping ==
    UnionDone =>
       /\ u_record_info_out = u_unique_field_names
       /\ Range(u_unique_field_names) =
             UNION {Range(u_inputs[w].record_info_in) : w \in UnionWired}
       /\ \A p, q \in DOMAIN u_unique_field_names :
             p < q => /\ u_unique_field_names[p] # u_unique_field_names[q]
                      /\ UnionAppearsBefore(u_unique_field_names[p],
                                            u_unique_field_names[q])
       /\ SubSeq(u_unique_field_names, 1, Len(UnionLayoutOf(1))) = UnionLayoutOf(1)
       /\ \A w \in UnionWired :
             /\ DOMAIN u_inputs[w].record_copier = DOMAIN u_inputs[w].record_info_in
             /\ \A j \in DOMAIN u_inputs[w].record_info_in :
                   u_record_info_out[u_inputs[w].record_copier[j]]
                      = u_inputs[w].record_info_in[j]

\* C4 witness: three inputs whose layouts merge to a, c, b, the last input
\* mapping its fields to other positions than its own.
C4_Witness ==
    /\ UnionDone
    /\ Cardinality(UnionWired) = 3
    /\ u_unique_field_names = <<"a", "c", "b">>
    /\ \E w \in UnionWired :
          /\ u_inputs[w].record_info_in = <<"b", "a">>
          /\ u_inputs[w].record_copier = <<3, 1>>

\* C5: in error mode, whenever an input after the first brings a field name
\* that is not yet in the accumulated schema, record_processor pushes no
\* record and only closes the output anchor.
C5_UnionErrorModePushesNothing ==
    (UnionDone /\ u_message_type = "error" /\ UnionSomeNewField)
        => /\ UnionPushed = <<>>
           /\ UnionOps[Len(u_anchor)] = "close"

\* ---- join tool
JoinDone == \A side \in JoinSides : j_input[side].wired /\ j_input[side].input_complete
JoinOps == [k \in DOMAIN j_anchor |-> j_anchor[k][1]]
JoinPushed == SelectSeq(j_anchor, LAMBDA e : e[1] = "push_record")
JoinReceived(side) == j_input[side].received

\* What the i-th output record holds for field f of a side
JoinExpected(side, i, f) ==
    IF i <= JoinReceived(side)
    THEN [rec |-> <<JoinSideNo(side), i>>, fld |-> j_input[side].record_info_in[f]]
    ELSE UnionNull

\* C6: process_output pushes exactly max(|L|, |R|) records; the i-th one
\* carries the i-th record of each input, with the fields of an exhausted
\* input null; and no missing (None) record is dereferenced, whatever the
\* sizes of L and R are.
C6_JoinPushesMaxWithNulls ==
    /\ ~j_crashed
    /\ JoinDone =>
          /\ Len(JoinPushed) = Max(JoinReceived("Left"), JoinReceived("Right"))
          /\ \A i \in DOMAIN JoinPushed :
                /\ Len(JoinPushed[i][2]) = Len(j_input["Left"].record_info_in)
                                            + Len(j_input["Right"].record_info_in)
                /\ \A side \in JoinSides :
                      \A f \in DOMAIN j_input[side].record_info_in :
                         JoinPushed[i][2][j_input[side].record_copier[f]]
                            = JoinExpected(side, i, f)

\* C6 witness: Left longer than Right, Right not empty: records were pushed
\* both with Right's record and with Right's fields null.
C6_Witness ==
    /\ JoinDone
    /\ JoinReceived("Left") = 3
    /\ JoinReceived("Right") = 1
    /\ Len(JoinPushed) = 3
    /\ j_input["Right"].record_copier = <<1, 2>>

\* C7: process_output runs only once both connections have received
\* ii_close, and exactly once, whichever closes last; a connection that
\* closes while the other anchor has no connection gets the error 'Both
\* left and right inputs must have connections', and nothing is initialised,
\* pushed or closed on the output anchor.
C7_JoinRunsOnceAfterBothClosed ==
    /\ j_anchor # <<>> => JoinDone
    /\ JoinDone =>
          /\ Len(j_anchor) >= 2
          /\ JoinOps[1] = "init"
          /\ JoinOps[Len(j_anchor)] = "close"
          /\ \A k \in 2..(Len(j_anchor) - 1) : JoinOps[k] = "push_record"
          /\ j_msgs = <<>>
    /\ \A side \in JoinSides :
          (j_input[side].input_complete /\ \E other \in JoinSides : ~j_input[other].wired)
             => /\ j_msgs = <<"Both left and right inputs must have connections">>
                /\ j_anchor = <<>>

\* C7 witness: both closed, Left last, the output written and closed.
C7_Witness ==
    /\ JoinDone
    /\ j_closed = <<"Right", "Left">>
    /\ Len(JoinPushed) >= 1
    /\ JoinOps[Len(j_anchor)] = "close"

\* ---- PyMultipleOutputsToolExample
DedupSeenBefore(k) ==
    \E m \in 1..(k-1) :
        get_as_string(d_received[m].value) = get_as_string(d_received[k].value)

\* C8: after ii_init every ii_push_record pushes its record to exactly one
\* of the two anchors: to Unique if and only if the string value of the
\* selected field has not occurred in an earlier record of the run,
\* otherwise to Duplicate.
C8_DedupUniqueIffFirstOccurrence ==
    /\ Len(d_unique) + Len(d_dupe) = Len(d_received)
    /\ \A k \in DOMAIN d_received :
          /\ (d_received[k] \in Range(d_unique)) = ~DedupSeenBefore(k)
          /\ (d_received[k] \in Range(d_dupe)) = DedupSeenBefore(k)

\* C8 witness: a value came back after another value in between, and a
\* null came twice.
C8_Witness ==
    /\ Len(d_received) = 4
    /\ d_received[1].value.text = "x" /\ d_received[2].value.null
    /\ d_received[3].value.text = "x" /\ d_received[4].value.null
    /\ Len(d_unique) = 2
    /\ Len(d_dupe) = 2

\* ---- Multiple Outputs tool
MultiOutSameAsPreceding(k) ==
    k > 1 /\ m_received[k].value = m_received[k-1].value

\* C9: with the input presorted ascending on the selected field, every
\* ii_push_record pushes the record to exactly one of the two anchors: to
\* Duplicate if and only if its selected-field value equals that of the
\* immediately preceding record, otherwise to Unique; it returns True.
C9_MultiOutDupeIffSameAsPreceding ==
    /\ Len(m_unique) + Len(m_dupe) = Len(m_received)
    /\ m_received # <<>> => m_ret = TRUE
    /\ \A k \in DOMAIN m_received :
          /\ (m_received[k] \in Range(m_dupe)) = MultiOutSameAsPreceding(k)
          /\ (m_received[k] \in Range(m_unique)) = ~MultiOutSameAsPreceding(k)

\* C10: the info message of ii_close reports the number of records pushed
\* to the Unique anchor and the number pushed to the Duplicate anchor.
C10_MultiOutMessageReportsCounts ==
    m_pc = "closed" =>
        m_msgs = <<[type |-> "info", unique |-> Len(m_unique), dupes |-> Len(m_dupe)]>>

\* ---- Output tool, rejected path
OutPathRejected(p) ==
    p.exists \/ p.len > 259 \/ p.forbidden \/ p.len = 0 \/ ~p.csv

\* C16: when the configured path of the Output tool is rejected (it already
\* exists, is longer than 259 characters, holds a forbidden character, is
\* empty or does not end in .csv), pi_init reports an error and is_valid
\* stays False; every ii_push_record returns False, nothing is ever written
\* to the path, and ii_close sends no 'was created' message.
C16_OutRejectedPathWritesNothing ==
    (o_pc # "new" /\ OutPathRejected(o_str_file_path))
        => /\ ~o_is_valid
           /\ "error" \in Range(o_msgs)
           /\ o_received # <<>> => o_ret = FALSE
           /\ o_file = <<>>
           /\ ~o_file_exists
           /\ "file_output" \notin Range(o_msgs)

\* C16 witness: a run on a path without the .csv extension received more
\* records than a chunk holds and was closed.
C16_Witness ==
    /\ o_pc = "closed"
    /\ o_str_file_path.name = "new.txt"
    /\ Len(o_received) > ChunkSize
    /\ o_ret = FALSE

\* ---- Input tool
InIsPush(call) == call.op = "push_record"
InIsError(msg) == msg.type = "error"
InPushed == SelectSeq(i_anchor, InIsPush)
InErrors == SelectSeq(i_msgs, InIsError)
InCalled == i_pc \in {"pushed", "closed"}

\* C11: pi_push_all_records honours n_record_limit as its docstring states:
\* it pushes no record when the limit is 0, at most n_record_limit records
\* when the limit is positive, and every record of the file when the limit
\* is negative.  Stated here for the calls of the Input tool that returned
\* True.
C11_PushAllRecordsHonoursLimit ==
    (InCalled /\ i_ret = "True")
        => /\ i_n_record_limit = 0 => Len(InPushed) = 0
           /\ i_n_record_limit > 0 => Len(InPushed) <= i_n_record_limit
           /\ i_n_record_limit < 0 => Len(InPushed) = Len(i_file_path.rows)

\* C12: when pi_init accepted the configuration and UpdateOnly is not
\* 'True', pi_push_all_records on a csv file with a header line and k data
\* rows, for every k >= 0, initialises the output anchor, pushes exactly
\* the k rows in file order, sends one info message, closes the output
\* anchor and returns True.
C12_InputPushesEveryRow ==
    (InCalled /\ i_is_initialized /\ i_update_only # "True")
        => /\ i_ret = "True"
           /\ Len(i_anchor) >= 2
           /\ i_anchor[1].op = "init"
           /\ i_anchor[Len(i_anchor)].op = "close"
           /\ \A k \in 2..(Len(i_anchor) - 1) : i_anchor[k].op \notin {"init", "close"}
           /\ InPushed = [k \in DOMAIN i_file_path.rows |->
                             InCall("push_record", i_file_path.rows[k], <<>>)]
           /\ i_msgs = <<[type |-> "info", text |-> "records were read"]>>

\* The one error the configuration calls for, if any
InExpectedErrors ==
    IF i_file_path.name = "" THEN <<"Please specify a csv file">>
    ELSE IF i_file_path.ext \notin {".csv", ".CSV"} THEN <<"This tool only accepts csv files">>
    ELSE IF ~i_file_path.exists THEN <<"No such file or directory">>
    ELSE <<>>

\* C13: pi_init of the Input tool reports at most one configuration error,
\* chosen in this order: empty file name, extension other than .csv
\* (whatever its case), path that does not exist.  After such an error, and
\* also when UpdateOnly is 'True', pi_push_all_records returns False and
\* neither initialises the output anchor nor pushes a record.
C13_InputConfigurationErrors ==
    i_pc # "new"
        => /\ [k \in DOMAIN InErrors |-> InErrors[k].text] = InExpectedErrors
           /\ i_is_initialized = (InExpectedErrors = <<>>)
           /\ (InCalled /\ (InExpectedErrors # <<>> \/ i_update_only = "True"))
                 => (i_ret = "False" /\ i_anchor = <<>>)

\* C13 witness: a path that neither ends in .csv nor exists got the
\* extension error only, and pi_push_all_records then refused.
C13_Witness ==
    /\ InCalled
    /\ i_file_path.name = "missing.txt"
    /\ i_msgs = <<[type |-> "error", text |-> "This tool only accepts csv files"]>>
    /\ i_update_only = "False"
    /\ i_ret = "False"

\* ---- Optional Input tool
OptInIsPush(call) == call.op = "push_record"
OptInPushed == SelectSeq(g_anchor, OptInIsPush)
OptInNameRejected == g_column_name.missing \/ g_column_name.len > 255

C15_OptInFieldNameError ==
    (g_pc # "new" /\ OptInNameRejected)
        => /\ Len(g_msgs) = 1 /\ g_msgs[1].type = "error"
           /\ \A k \in DOMAIN g_ret : g_ret[k] = "False"
           /\ \A k \in DOMAIN g_anchor : g_anchor[k].op \notin {"init", "push_record"}

\* C15 witness: with a field name of 256 characters ii_init and two
\* ii_push_record calls were refused.
C15_Witness ==
    /\ g_pc = "streaming"
    /\ g_column_name.len = 256
    /\ Len(g_received) = 2
    /\ g_ret = <<"False", "False", "False">>

\* ---- Sorted Input tool
SortedIsPush(call) == call.op = "push_record"
SortedPushed == SelectSeq(s_anchor, SortedIsPush)
SortedIsSortInfo(element) == element.element = "SortInfo"
SortedRequested == SelectSeq(s_pre_sort, SortedIsSortInfo)

\* C17: 'min' requests an ascending and 'max' a descending presort on the
\* selected field, every ii_push_record returns False, and over any
\* sequence of ii_push_record calls at most one record, the first record of
\* the presorted stream, is pushed to the output anchor.  Stated here for
\* the runs configured with 'min' or 'max' whose ii_init accepted the field.
C17_SortedPushesOnlyFirst ==
    (s_pc \in {"streaming", "closed"} /\ s_initialized
        /\ s_selected_aggregation \in {"min", "max"})
        => /\ s_selected_aggregation = "min" =>
                 SortedRequested = <<[element |-> "SortInfo",
                                      field |-> SortedFieldSelection, order |-> "Asc"]>>
           /\ s_selected_aggregation = "max" =>
                 SortedRequested = <<[element |-> "SortInfo",
                                      field |-> SortedFieldSelection, order |-> "Desc"]>>
           /\ \A k \in DOMAIN s_ret : s_ret[k] = "False"
           /\ Len(SortedPushed) <= 1
           /\ s_received # <<>> =>
                 SortedPushed = <<SortedCall("push_record", s_received[1])>>

\* ---- binary-compatibility tool
CompatClosesBefore(k) ==
    Cardinality({ j \in 1..(k - 1) : b_calls[j].op = "ii_close" })
CompatCloses == CompatClosesBefore(Len(b_calls) + 1)
CompatAnchorClosed == \E k \in DOMAIN b_anchor : b_anchor[k].op = "close"

\* C18: until the first ii_close, ii_push_record pushes nothing and
\* ii_update_progress reports nothing; after the first ii_close every
\* ii_push_record pushes exactly one result record; every ii_push_record
\* returns False; and the output anchor is closed at the second ii_close
\* and not before.
C18_CompatStreamsAfterFirstClose ==
    /\ \A k \in DOMAIN b_calls :
          /\ (b_calls[k].op = "ii_push_record" /\ CompatClosesBefore(k) = 0)
                => b_calls[k].pushed = 0
          /\ (b_calls[k].op = "ii_update_progress" /\ CompatClosesBefore(k) = 0)
                => ~b_calls[k].reported
          /\ (b_calls[k].op = "ii_push_record" /\ CompatClosesBefore(k) >= 1)
                => b_calls[k].pushed = 1
          /\ b_calls[k].op = "ii_push_record" => b_calls[k].ret = "False"
    /\ CompatAnchorClosed = (CompatCloses = 2)

====
